---- MODULE Spec2Model ----
(***************************************************************************)
(* Model of src/sample_scripts/condo_logic/main.py: a script that calls    *)
(* the LightBox REST API in a fixed chain (address search, parcel by       *)
(* geometry, assessment by parcel), prints the three JSON results and then *)
(* runs three assertion-based checks.                                      *)
(*                                                                         *)
(* The script is single-threaded and requests.get blocks, so one statement *)
(* of the script (argument evaluation, the GET, the assignment and the     *)
(* assert that follows it) is one step.  The remote service is the         *)
(* environment: each GET either raises a network exception or returns a    *)
(* response drawn from a small set of statuses and bodies.                 *)
(***************************************************************************)
EXTENDS Integers, Sequences, FiniteSets

VARIABLES pc, address_search_data, parcel_data, assessment_data, locals,
          sent, stdout, checks, error, errline

vars == <<pc, address_search_data, parcel_data, assessment_data, locals,
          sent, stdout, checks, error, errline>>

(* ---------------- bounds of the environment ---------------- *)

\* longest result list a response carries
MaxResults == 2

\* representative-point geometries the service may return
WktValues == {"POINT(-117.6 33.6)", "POINT(0 0)"}

\* parcel identifiers the service may return
ParcelIds == {"0201PARCEL", "0202PARCEL"}

\* HTTP status codes the service may answer with
StatusCodes == {200, 400, 401, 404}

(* ---------------- module-level configuration ---------------- *)

lightbox_api_key == ""

address == "25482 Buckwood Land Forest, Ca, 92630"

country_code == "us"

BASE_URL == "https://api.lightboxre.com/v1"

(* ---------------- responses ---------------- *)

\* The body of a response, by what response.json() and the subscripts the
\* script applies to it do with it.  The first three kinds are the bodies
\* json() raises on, whatever else they hold; the others are parsed.
\*   "notjson"    not JSON text: json() raises JSONDecodeError
\*   "toodeep"    JSON text nested deeper than the interpreter's recursion
\*                limit lets the parser go: json() raises RecursionError
\*   "bigint"     JSON text with an integer literal longer than the
\*                interpreter's limit for integer strings: json() raises
\*                ValueError
\*   "nonobject"  JSON that is not an object (a list, null, a string, a
\*                number, a boolean): subscripting it by the list's name
\*                raises TypeError
\*   "object"     a JSON object without the result list (an error payload):
\*                KeyError
\*   "nolist"     a JSON object whose result-list entry is null, a number,
\*                a boolean or a non-empty string: TypeError
\*   "emptystr"   a JSON object whose result-list entry is the string "":
\*                [0] raises IndexError
\*   "dictlist"   a JSON object whose result-list entry is a JSON object:
\*                [0] raises KeyError
\*   "results"    a JSON object whose result-list entry is a list, its
\*                items in "items"
Body(kind, items) == [kind |-> kind, items |-> items]

\* a name that is not bound to a response yet
NoResponse == [status |-> 0, body |-> Body("unbound", <<>>)]

\* a local name that is not bound to a string yet
Unbound == "<unbound>"

\* Item 0 of a result list, by what the path of subscripts to the field
\* the script reads does with it: "ok" reaches the field, a JSON string;
\* "nokey" meets a JSON object without the next key (KeyError); "null"
\* meets a value that is not a JSON object, in the item itself or on the
\* path (TypeError).
Candidates(Values) ==
    {[shape |-> "ok", value |-> v] : v \in Values}
    \cup {[shape |-> "nokey", value |-> ""], [shape |-> "null", value |-> ""]}

Injective(s) == \A i, j \in DOMAIN s : s[i] = s[j] => i = j

\* result lists: no item twice; the script reads item 0 only, so only
\* item 0 is taken to be possibly malformed
Lists(Values) ==
    {s \in UNION {[1..n -> Candidates(Values)] : n \in 0..MaxResults} :
        /\ Injective(s)
        /\ \A i \in DOMAIN s : i > 1 => s[i].shape = "ok"}

UnparsedBodies ==
    {Body("notjson", <<>>), Body("toodeep", <<>>), Body("bigint", <<>>)}

NoListBodies ==
    UnparsedBodies
    \cup {Body("nonobject", <<>>), Body("object", <<>>), Body("nolist", <<>>),
          Body("emptystr", <<>>), Body("dictlist", <<>>)}

AddressBodies ==
    NoListBodies \cup {Body("results", l) : l \in Lists(WktValues)}

ParcelBodies ==
    NoListBodies \cup {Body("results", l) : l \in Lists(ParcelIds)}

AssessmentBodies ==
    UnparsedBodies \cup {Body("nonobject", <<>>), Body("object", <<>>)}

\* The responses the service is taken to give: a result list comes with
\* status 200; any status may come with any body without a result list.
Responses(Bodies) ==
    {r \in [status : StatusCodes, body : Bodies] :
        r.body.kind = "results" => r.status = 200}

AddressResponses == Responses(AddressBodies)

ParcelResponses == Responses(ParcelBodies)

AssessmentResponses == Responses(AssessmentBodies)

(* ---------------- the three resolvers ---------------- *)

\* The GET each resolver issues; the resolver returns the response of
\* requests.get unchanged.
geocode_address(key, addr) ==
    [url     |-> BASE_URL \o "/addresses/search",
     params  |-> << <<"text", addr>> >>,
     headers |-> << <<"x-api-key", key>> >>]

get_parcel_data_from_address_coordinates(key, country, coordinates) ==
    [url     |-> BASE_URL \o ("/parcels/" \o country \o "/geometry"),
     params  |-> << <<"wkt", coordinates>> >>,
     headers |-> << <<"x-api-key", key>> >>]

get_assessment_data_from_lbx_parcel_id(key, lbx_parcel_id) ==
    [url     |-> BASE_URL \o ("/assessments/_on/parcel/us/" \o lbx_parcel_id),
     params  |-> <<>>,
     headers |-> << <<"x-api-key", key>> >>]

(* ---------------- reading a response ---------------- *)

\* response.json(): the exception it raises, or "none"
JsonError(r) ==
    IF r.body.kind = "notjson" THEN "JSONDecodeError"
    ELSE IF r.body.kind = "toodeep" THEN "RecursionError"
    ELSE IF r.body.kind = "bigint" THEN "ValueError"
    ELSE "none"

\* response.json()[<list>][0][<path>]: the exception the chain of subscripts
\* raises, evaluated left to right, or "none"
IndexError(r) ==
    IF JsonError(r) # "none" THEN JsonError(r)
    ELSE IF r.body.kind = "nonobject" THEN "TypeError"
    ELSE IF r.body.kind = "object" THEN "KeyError"
    ELSE IF r.body.kind = "nolist" THEN "TypeError"
    ELSE IF r.body.kind = "emptystr" THEN "IndexError"
    ELSE IF r.body.kind = "dictlist" THEN "KeyError"
    ELSE IF Len(r.body.items) = 0 THEN "IndexError"
    ELSE IF r.body.items[1].shape = "nokey" THEN "KeyError"
    ELSE IF r.body.items[1].shape = "null" THEN "TypeError"
    ELSE "none"

\* variant: the last candidate instead of candidate 0
AddressWkt_last(r) == r.body.items[Len(r.body.items)].value

\* .json()["addresses"][0]["location"]["representativePoint"]["geometry"]["wkt"]
AddressWkt(r) == r.body.items[1].value

\* .json()["parcels"][0]["id"]
ParcelId(r) == r.body.items[1].value

(* ---------------- state ---------------- *)

EmptyFrame ==
    [address             |-> Unbound,
     country_code        |-> Unbound,
     address_search_data |-> NoResponse,
     address_coordinates |-> Unbound,
     parcel_data         |-> NoResponse,
     parcel_id           |-> Unbound,
     assessment_data     |-> NoResponse]

Init ==
    /\ pc = "L172"
    /\ address_search_data = NoResponse
    /\ parcel_data = NoResponse
    /\ assessment_data = NoResponse
    /\ locals = EmptyFrame
    /\ sent = <<>>
    /\ stdout = <<>>
    /\ checks = <<>>
    /\ error = "none"
    /\ errline = 0

\* an uncaught exception ends the script
Raise(line, exc) ==
    /\ pc' = "error"
    /\ error' = exc
    /\ errline' = line

Continue(next) ==
    /\ pc' = next
    /\ UNCHANGED <<error, errline>>

(* ---------------- main pipeline, lines 165-191 ---------------- *)

\* line 172
main_geocode ==
    /\ pc = "L172"
    /\ sent' = Append(sent, geocode_address(lightbox_api_key, address))
    /\ UNCHANGED <<parcel_data, assessment_data, locals, stdout, checks>>
    /\ \/ /\ Raise(172, "ConnectionError")
          /\ UNCHANGED address_search_data
       \/ \E r \in AddressResponses :
            /\ address_search_data' = r
            /\ Continue("L175")

\* variant: an absent first candidate is replaced by an empty location
main_parcel_default ==
    /\ pc = "L175"
    /\ UNCHANGED <<address_search_data, assessment_data, locals, stdout, checks>>
    /\ sent' = Append(sent,
           get_parcel_data_from_address_coordinates(
               lightbox_api_key, country_code,
               IF IndexError(address_search_data) # "none" THEN ""
               ELSE AddressWkt(address_search_data)))
    /\ \/ /\ Raise(175, "ConnectionError")
          /\ UNCHANGED parcel_data
       \/ \E r \in ParcelResponses :
            /\ parcel_data' = r
            /\ Continue("L178")

\* line 175
main_parcel ==
    /\ pc = "L175"
    /\ UNCHANGED <<address_search_data, assessment_data, locals, stdout, checks>>
    /\ IF IndexError(address_search_data) # "none"
       THEN /\ Raise(175, IndexError(address_search_data))
            /\ UNCHANGED <<sent, parcel_data>>
       ELSE /\ sent' = Append(sent,
                  get_parcel_data_from_address_coordinates(
                      lightbox_api_key, country_code,
                      AddressWkt(address_search_data)))
            /\ \/ /\ Raise(175, "ConnectionError")
                  /\ UNCHANGED parcel_data
               \/ \E r \in ParcelResponses :
                    /\ parcel_data' = r
                    /\ Continue("L178")

\* variant: a GET that raised is issued again
main_assessment_retry ==
    /\ pc = "L178"
    /\ UNCHANGED <<address_search_data, parcel_data, locals, stdout, checks>>
    /\ IF IndexError(parcel_data) # "none"
       THEN /\ Raise(178, IndexError(parcel_data))
            /\ UNCHANGED <<sent, assessment_data>>
       ELSE /\ sent' = Append(sent,
                  get_assessment_data_from_lbx_parcel_id(
                      lightbox_api_key, ParcelId(parcel_data)))
            /\ \/ /\ Continue("L178")
                  /\ UNCHANGED assessment_data
               \/ \E r \in AssessmentResponses :
                    /\ assessment_data' = r
                    /\ Continue("L187")

\* line 178
main_assessment ==
    /\ pc = "L178"
    /\ UNCHANGED <<address_search_data, parcel_data, locals, stdout, checks>>
    /\ IF IndexError(parcel_data) # "none"
       THEN /\ Raise(178, IndexError(parcel_data))
            /\ UNCHANGED <<sent, assessment_data>>
       ELSE /\ sent' = Append(sent,
                  get_assessment_data_from_lbx_parcel_id(
                      lightbox_api_key, ParcelId(parcel_data)))
            /\ \/ /\ Raise(178, "ConnectionError")
                  /\ UNCHANGED assessment_data
               \/ \E r \in AssessmentResponses :
                    /\ assessment_data' = r
                    /\ Continue("L187")

\* print(json.dumps(r.json(), indent=4)): r.json() may raise; otherwise one
\* rendering of the parsed body, at indent 4, is written to standard output.
Dump(label, line, next, r) ==
    /\ pc = label
    /\ UNCHANGED <<address_search_data, parcel_data, assessment_data,
                   locals, sent, checks>>
    /\ IF JsonError(r) # "none"
       THEN /\ Raise(line, JsonError(r))
            /\ UNCHANGED stdout
       ELSE /\ stdout' = Append(stdout, [indent |-> 4, value |-> r.body])
            /\ Continue(next)

\* line 187
dump_address_search_data == Dump("L187", 187, "L189", address_search_data)

\* variant: the assessment result dumped in second place
dump_parcel_data_swapped == Dump("L189", 189, "L191", assessment_data)

\* line 189
dump_parcel_data == Dump("L189", 189, "L191", parcel_data)

\* line 191
dump_assessment_data == Dump("L191", 191, "L88", assessment_data)

(* ---------------- validation harness, lines 78-158 and 201-203 -------- *)

\* variant: assertions compiled away, the script carries on
CheckStatus_off(line, expected, actual, next) ==
    /\ checks' = Append(checks,
           [line |-> line, expected |-> expected, actual |-> actual])
    /\ Continue(next)

\* assert actual == expected, at the given line
CheckStatus(line, expected, actual, next) ==
    /\ checks' = Append(checks,
           [line |-> line, expected |-> expected, actual |-> actual])
    /\ IF actual = expected
       THEN Continue(next)
       ELSE Raise(line, "AssertionError")

\* a GET of the harness raised a network exception at the given line
GetRaised(line) ==
    /\ Raise(line, "ConnectionError")
    /\ UNCHANGED checks

Globals == <<address_search_data, parcel_data, assessment_data, stdout>>

ValidAddress == "25482 Buckwood Land Forest, Ca, 92630"

(* test_geocode_address_response_status, called at line 201 *)

\* lines 87-89
test_geocode_200 ==
    /\ pc = "L88"
    /\ UNCHANGED Globals
    /\ LET f == [locals EXCEPT !.address = ValidAddress] IN
       /\ sent' = Append(sent, geocode_address(lightbox_api_key, f.address))
       /\ \/ GetRaised(88) /\ locals' = f
          \/ \E r \in AddressResponses :
               /\ locals' = [f EXCEPT !.address_search_data = r]
               /\ CheckStatus(89, 200, r.status, "L93")

\* lines 92-94
test_geocode_400 ==
    /\ pc = "L93"
    /\ UNCHANGED Globals
    /\ LET f == [locals EXCEPT !.address = ""] IN
       /\ sent' = Append(sent, geocode_address(lightbox_api_key, f.address))
       /\ \/ GetRaised(93) /\ locals' = f
          \/ \E r \in AddressResponses :
               /\ locals' = [f EXCEPT !.address_search_data = r]
               /\ CheckStatus(94, 400, r.status, "L98")

\* lines 97-99
test_geocode_401 ==
    /\ pc = "L98"
    /\ UNCHANGED Globals
    /\ LET f == [locals EXCEPT !.address = ValidAddress] IN
       /\ sent' = Append(sent, geocode_address("My-LightBox-Key", f.address))
       /\ \/ GetRaised(98) /\ locals' = f
          \/ \E r \in AddressResponses :
               /\ locals' = [f EXCEPT !.address_search_data = r]
               /\ CheckStatus(99, 401, r.status, "L103")

\* lines 102-104; the function returns when the assertion passes
test_geocode_404 ==
    /\ pc = "L103"
    /\ UNCHANGED Globals
    /\ LET f == [locals EXCEPT !.address = "25482 Buckwood Land Forest"] IN
       /\ sent' = Append(sent, geocode_address(lightbox_api_key, f.address))
       /\ \/ GetRaised(103) /\ locals' = f
          \/ \E r \in AddressResponses :
               /\ locals' = IF r.status = 404 THEN EmptyFrame
                            ELSE [f EXCEPT !.address_search_data = r]
               /\ CheckStatus(104, 404, r.status, "L118")

(* test_get_parcel_data_from_address_coordinates, called at line 202 *)

\* lines 116-118
test_parcel_geocode ==
    /\ pc = "L118"
    /\ UNCHANGED Globals
    /\ UNCHANGED checks
    /\ LET f == [locals EXCEPT !.address = ValidAddress,
                               !.country_code = "us"] IN
       /\ sent' = Append(sent, geocode_address(lightbox_api_key, f.address))
       /\ \/ Raise(118, "ConnectionError") /\ locals' = f
          \/ \E r \in AddressResponses :
               /\ locals' = [f EXCEPT !.address_search_data = r]
               /\ Continue("L119")

\* lines 119-121
test_parcel_200 ==
    /\ pc = "L119"
    /\ UNCHANGED Globals
    /\ IF IndexError(locals.address_search_data) # "none"
       THEN /\ Raise(119, IndexError(locals.address_search_data))
            /\ UNCHANGED <<sent, locals, checks>>
       ELSE LET f == [locals EXCEPT !.address_coordinates =
                         AddressWkt(locals.address_search_data)] IN
            /\ sent' = Append(sent,
                   get_parcel_data_from_address_coordinates(
                       lightbox_api_key, f.country_code, f.address_coordinates))
            /\ \/ GetRaised(120) /\ locals' = f
               \/ \E r \in ParcelResponses :
                    /\ locals' = [f EXCEPT !.parcel_data = r]
                    /\ CheckStatus(121, 200, r.status, "L124")

\* lines 124-126
test_parcel_400 ==
    /\ pc = "L124"
    /\ UNCHANGED Globals
    /\ LET f == [locals EXCEPT !.address_coordinates = "foobar"] IN
       /\ sent' = Append(sent,
              get_parcel_data_from_address_coordinates(
                  lightbox_api_key, f.country_code, f.address_coordinates))
       /\ \/ GetRaised(125) /\ locals' = f
          \/ \E r \in ParcelResponses :
               /\ locals' = [f EXCEPT !.parcel_data = r]
               /\ CheckStatus(126, 400, r.status, "L129")

\* lines 129-130; the function returns when the assertion passes
test_parcel_401 ==
    /\ pc = "L129"
    /\ UNCHANGED Globals
    /\ sent' = Append(sent,
           get_parcel_data_from_address_coordinates(
               lightbox_api_key \o "foobar", locals.country_code,
               locals.address_coordinates))
    /\ \/ GetRaised(129) /\ UNCHANGED locals
       \/ \E r \in ParcelResponses :
            /\ locals' = IF r.status = 401 THEN EmptyFrame
                         ELSE [locals EXCEPT !.parcel_data = r]
            /\ CheckStatus(130, 401, r.status, "L144")

(* test_get_assessment_data_from_lbx_parcel_id, called at line 203 *)

\* variant: the address search is repeated until it answers 200
test_assessment_geocode_again ==
    /\ pc = "L144"
    /\ UNCHANGED Globals
    /\ UNCHANGED checks
    /\ LET f == [locals EXCEPT !.address = ValidAddress,
                               !.country_code = "us"] IN
       /\ sent' = Append(sent, geocode_address(lightbox_api_key, f.address))
       /\ \/ Raise(144, "ConnectionError") /\ locals' = f
          \/ \E r \in AddressResponses :
               /\ locals' = [f EXCEPT !.address_search_data = r]
               /\ Continue(IF r.status = 200 THEN "L145" ELSE "L144")

\* lines 142-144
test_assessment_geocode ==
    /\ pc = "L144"
    /\ UNCHANGED Globals
    /\ UNCHANGED checks
    /\ LET f == [locals EXCEPT !.address = ValidAddress,
                               !.country_code = "us"] IN
       /\ sent' = Append(sent, geocode_address(lightbox_api_key, f.address))
       /\ \/ Raise(144, "ConnectionError") /\ locals' = f
          \/ \E r \in AddressResponses :
               /\ locals' = [f EXCEPT !.address_search_data = r]
               /\ Continue("L145")

\* lines 145-146
test_assessment_parcel ==
    /\ pc = "L145"
    /\ UNCHANGED Globals
    /\ UNCHANGED checks
    /\ IF IndexError(locals.address_search_data) # "none"
       THEN /\ Raise(145, IndexError(locals.address_search_data))
            /\ UNCHANGED <<sent, locals>>
       ELSE LET f == [locals EXCEPT !.address_coordinates =
                         AddressWkt(locals.address_search_data)] IN
            /\ sent' = Append(sent,
                   get_parcel_data_from_address_coordinates(
                       lightbox_api_key, f.country_code, f.address_coordinates))
            /\ \/ Raise(146, "ConnectionError") /\ locals' = f
               \/ \E r \in ParcelResponses :
                    /\ locals' = [f EXCEPT !.parcel_data = r]
                    /\ Continue("L147")

\* lines 147-149
test_assessment_200 ==
    /\ pc = "L147"
    /\ UNCHANGED Globals
    /\ IF IndexError(locals.parcel_data) # "none"
       THEN /\ Raise(147, IndexError(locals.parcel_data))
            /\ UNCHANGED <<sent, locals, checks>>
       ELSE LET f == [locals EXCEPT !.parcel_id =
                         ParcelId(locals.parcel_data)] IN
            /\ sent' = Append(sent,
                   get_assessment_data_from_lbx_parcel_id(
                       lightbox_api_key, f.parcel_id))
            /\ \/ GetRaised(148) /\ locals' = f
               \/ \E r \in AssessmentResponses :
                    /\ locals' = [f EXCEPT !.assessment_data = r]
                    /\ CheckStatus(149, 200, r.status, "L152")

\* lines 152-154
test_assessment_400 ==
    /\ pc = "L152"
    /\ UNCHANGED Globals
    /\ LET f == [locals EXCEPT !.parcel_id = "1234567890"] IN
       /\ sent' = Append(sent,
              get_assessment_data_from_lbx_parcel_id(
                  lightbox_api_key, f.parcel_id))
       /\ \/ GetRaised(153) /\ locals' = f
          \/ \E r \in AssessmentResponses :
               /\ locals' = [f EXCEPT !.assessment_data = r]
               /\ CheckStatus(154, 400, r.status, "L157")

\* lines 157-158; the function returns and the script ends
test_assessment_401 ==
    /\ pc = "L157"
    /\ UNCHANGED Globals
    /\ sent' = Append(sent,
           get_assessment_data_from_lbx_parcel_id(
               lightbox_api_key \o "foobar", locals.parcel_id))
    /\ \/ GetRaised(157) /\ UNCHANGED locals
       \/ \E r \in AssessmentResponses :
            /\ locals' = IF r.status = 401 THEN EmptyFrame
                         ELSE [locals EXCEPT !.assessment_data = r]
            /\ CheckStatus(158, 401, r.status, "done")

(* ---------------- the script ---------------- *)

Next ==
    \/ main_geocode
    \/ main_parcel
    \/ main_assessment
    \/ dump_address_search_data
    \/ dump_parcel_data
    \/ dump_assessment_data
    \/ test_geocode_200
    \/ test_geocode_400
    \/ test_geocode_401
    \/ test_geocode_404
    \/ test_parcel_geocode
    \/ test_parcel_200
    \/ test_parcel_400
    \/ test_parcel_401
    \/ test_assessment_geocode
    \/ test_assessment_parcel
    \/ test_assessment_200
    \/ test_assessment_400
    \/ test_assessment_401

Spec == Init /\ [][Next]_vars

\* every GET returns or raises, and the interpreter keeps running
FairSpec == Spec /\ WF_vars(Next)

TypeOK ==
    /\ pc \in {"L172", "L175", "L178", "L187", "L189", "L191", "L88", "L93",
               "L98", "L103", "L118", "L119", "L124", "L129", "L144", "L145",
               "L147", "L152", "L157", "done", "error"}
    /\ error \in {"none", "ConnectionError", "JSONDecodeError",
                  "RecursionError", "ValueError", "TypeError", "KeyError",
                  "IndexError", "AssertionError"}
    /\ errline \in 0..203

(* ---------------- properties ---------------- *)

\* a response that has been received and has no result at index 0
NoFirst(r) ==
    /\ r.status # 0
    /\ \/ r.body.kind # "results"
       \/ Len(r.body.items) = 0

LookupErrors == {"JSONDecodeError", "RecursionError", "ValueError",
                 "TypeError", "KeyError", "IndexError"}

\* statements of the main pipeline and of the harness
MainLabels == {"L172", "L175", "L178", "L187", "L189", "L191"}

HarnessLabels == {"L88", "L93", "L98", "L103", "L118", "L119", "L124",
                  "L129", "L144", "L145", "L147", "L152", "L157"}

\* the exception was raised inside one of the three test functions
InHarness == pc = "error" /\ errline < 165

\* C5: the main pipeline issues address search, parcel by geometry and
\* assessment by parcel in that order, each after the previous response has
\* been received; the parcel request carries the WKT of candidate 0 of the
\* address response and the assessment request the id of parcel 0 of the
\* parcel response; no stage is skipped or repeated.
C5_PipelineOrder ==
    /\ pc = "L172" => Len(sent) = 0
    /\ pc = "L175" => Len(sent) = 1
    /\ pc = "L178" => Len(sent) = 2
    /\ pc \in {"L187", "L189", "L191"} => Len(sent) = 3
    /\ (pc = "error" /\ errline = 172) => Len(sent) = 1
    /\ (pc = "error" /\ errline = 175) => Len(sent) \in {1, 2}
    /\ (pc = "error" /\ errline = 178) => Len(sent) \in {2, 3}
    /\ Len(sent) >= 1 =>
          sent[1] = [url     |-> "https://api.lightboxre.com/v1/addresses/search",
                     params  |-> << <<"text", "25482 Buckwood Land Forest, Ca, 92630">> >>,
                     headers |-> << <<"x-api-key", "">> >>]
    /\ Len(sent) >= 2 =>
          /\ address_search_data.status # 0
          /\ address_search_data.body.kind = "results"
          /\ Len(address_search_data.body.items) >= 1
          /\ address_search_data.body.items[1].shape = "ok"
          /\ sent[2] = [url     |-> "https://api.lightboxre.com/v1/parcels/us/geometry",
                        params  |-> << <<"wkt", address_search_data.body.items[1].value>> >>,
                        headers |-> << <<"x-api-key", "">> >>]
    /\ Len(sent) >= 3 =>
          /\ parcel_data.status # 0
          /\ parcel_data.body.kind = "results"
          /\ Len(parcel_data.body.items) >= 1
          /\ parcel_data.body.items[1].shape = "ok"
          /\ sent[3] = [url     |-> "https://api.lightboxre.com/v1/assessments/_on/parcel/us/"
                                        \o parcel_data.body.items[1].value,
                        params  |-> <<>>,
                        headers |-> << <<"x-api-key", "">> >>]

\* the pipeline has run through with an address response of two different
\* candidates and a parcel response of two different parcels
C5_Witness ==
    /\ pc = "L187"
    /\ Len(sent) = 3
    /\ Len(address_search_data.body.items) = 2
    /\ Len(parcel_data.body.items) = 2

\* C6: standard output holds only the dumps of the address, parcel and
\* assessment results, in that order, each at most once; the first dump
\* comes after all three responses of the main pipeline were received; the
\* harness writes nothing.
C6_Stdout ==
    /\ Len(stdout) <= 3
    /\ Len(stdout) >= 1 =>
          /\ Len(sent) >= 3
          /\ address_search_data.status # 0
          /\ parcel_data.status # 0
          /\ assessment_data.status # 0
          /\ stdout[1] = [indent |-> 4, value |-> address_search_data.body]
    /\ Len(stdout) >= 2 => stdout[2] = [indent |-> 4, value |-> parcel_data.body]
    /\ Len(stdout) >= 3 => stdout[3] = [indent |-> 4, value |-> assessment_data.body]
    /\ pc \in {"L172", "L175", "L178", "L187"} => stdout = <<>>
    /\ (pc \in HarnessLabels \/ pc = "done" \/ InHarness) => Len(stdout) = 3

\* the harness has run to its end after the three dumps
C6_Witness ==
    /\ pc = "done"
    /\ Len(stdout) = 3
    /\ Len(sent) = 16

\* the assert statements of the harness, in the order of the script, with
\* the status each expects and the requests issued when it is evaluated
CheckLine == <<89, 94, 99, 104, 121, 126, 130, 149, 154, 158>>

CheckExpected == <<200, 400, 401, 404, 200, 400, 401, 200, 400, 401>>

CheckSent == <<4, 5, 6, 7, 9, 10, 11, 14, 15, 16>>

\* the harness evaluates its checks in the fixed order and stops at the
\* first one whose status differs from the expected one
HaltsOnFirstFailure ==
    /\ Len(checks) <= 10
    /\ \A i \in 1..Len(checks) :
          /\ checks[i].line = CheckLine[i]
          /\ checks[i].expected = CheckExpected[i]
          /\ i < Len(checks) => checks[i].actual = checks[i].expected
    /\ Len(checks) > 0 =>
          LET n == Len(checks) IN
          checks[n].actual # checks[n].expected =>
              /\ pc = "error"
              /\ error = "AssertionError"
              /\ errline = checks[n].line
              /\ Len(sent) = CheckSent[n]
    /\ error = "AssertionError" =>
          /\ pc = "error"
          /\ Len(checks) > 0
          /\ checks[Len(checks)].actual # checks[Len(checks)].expected

\* C7 as amended: the harness halts on the first failed assertion, and the
\* script stops with an error exactly on a failed assertion, a network
\* exception, or a response body that cannot be indexed.
C7_HaltsOnFirstFailure ==
    /\ HaltsOnFirstFailure
    /\ pc = "error" <=>
          error \in {"AssertionError", "ConnectionError"} \cup LookupErrors

\* C7 as stated: ... and an assertion failure is the only way the script
\* stops with an error once the harness runs.
C7_Original ==
    /\ HaltsOnFirstFailure
    /\ InHarness => error = "AssertionError"

\* a check failed after earlier checks had passed
C7_Witness ==
    /\ pc = "error"
    /\ error = "AssertionError"
    /\ Len(checks) >= 2
    /\ checks[1].actual = 200

\* C8: a received response without a result at index 0 makes the script
\* fail at the statement that indexes it: no further request is issued, and
\* in the main pipeline nothing is printed and no check is run.
C8_NoEmptyResultHandling ==
    /\ NoFirst(address_search_data) =>
          /\ pc \in {"L175", "error"}
          /\ pc = "error" => errline = 175 /\ error \in LookupErrors
          /\ Len(sent) = 1
          /\ stdout = <<>>
          /\ checks = <<>>
    /\ NoFirst(parcel_data) =>
          /\ pc \in {"L178", "error"}
          /\ pc = "error" => errline = 178 /\ error \in LookupErrors
          /\ Len(sent) = 2
          /\ stdout = <<>>
          /\ checks = <<>>
    /\ (NoFirst(locals.address_search_data) /\ locals.country_code # Unbound) =>
          /\ pc \in {"L119", "L145", "error"}
          /\ pc = "error" => errline \in {119, 145} /\ error \in LookupErrors
          /\ Len(sent) \in {8, 12}
    /\ (NoFirst(locals.parcel_data) /\ Len(sent) >= 12) =>
          /\ pc \in {"L147", "error"}
          /\ pc = "error" => errline = 147 /\ error \in LookupErrors
          /\ Len(sent) = 13

\* the address response of the main pipeline had an empty candidate list
C8_Witness ==
    /\ pc = "error"
    /\ errline = 175
    /\ error = "IndexError"
    /\ address_search_data.body.kind = "results"

\* requests issued, and checks evaluated, when the GET of a line has raised
SentAtLine ==
    [l \in {172, 175, 178, 88, 93, 98, 103, 118, 120, 125, 129, 144, 146,
            148, 153, 157} |->
       CASE l = 172 -> 1 [] l = 175 -> 2 [] l = 178 -> 3
         [] l = 88 -> 4 [] l = 93 -> 5 [] l = 98 -> 6 [] l = 103 -> 7
         [] l = 118 -> 8 [] l = 120 -> 9 [] l = 125 -> 10 [] l = 129 -> 11
         [] l = 144 -> 12 [] l = 146 -> 13 [] l = 148 -> 14
         [] l = 153 -> 15 [] l = 157 -> 16]

ChecksAtLine ==
    [l \in DOMAIN SentAtLine |->
       CASE l \in {172, 175, 178, 88} -> 0
         [] l = 93 -> 1 [] l = 98 -> 2 [] l = 103 -> 3
         [] l \in {118, 120} -> 4 [] l = 125 -> 5 [] l = 129 -> 6
         [] l \in {144, 146, 148} -> 7 [] l = 153 -> 8 [] l = 157 -> 9]

\* C9: a network exception raised by a GET ends the script at that GET:
\* the request is not issued again, no later request is issued, and no
\* later stage, dump or check is executed.
C9_NetworkException ==
    /\ error = "ConnectionError" =>
          /\ pc = "error"
          /\ errline \in DOMAIN SentAtLine
          /\ Len(sent) = SentAtLine[errline]
          /\ Len(checks) = ChecksAtLine[errline]
          /\ Len(stdout) = IF errline >= 165 THEN 0 ELSE 3
    /\ (Len(sent) >= 1 /\ address_search_data.status = 0) =>
          pc = "error" /\ error = "ConnectionError" /\ errline = 172 /\ Len(sent) = 1
    /\ (Len(sent) >= 2 /\ parcel_data.status = 0) =>
          pc = "error" /\ error = "ConnectionError" /\ errline = 175 /\ Len(sent) = 2
    /\ (Len(sent) >= 3 /\ assessment_data.status = 0) =>
          pc = "error" /\ error = "ConnectionError" /\ errline = 178 /\ Len(sent) = 3

\* the assessment request of the main pipeline raised
C9_Witness ==
    /\ pc = "error"
    /\ error = "ConnectionError"
    /\ errline = 178
    /\ assessment_data.status = 0

\* requests issued before each statement of the script
SentBefore ==
    [l \in MainLabels \cup HarnessLabels \cup {"done"} |->
       CASE l = "L172" -> 0 [] l = "L175" -> 1 [] l = "L178" -> 2
         [] l \in {"L187", "L189", "L191", "L88"} -> 3
         [] l = "L93" -> 4 [] l = "L98" -> 5 [] l = "L103" -> 6
         [] l = "L118" -> 7 [] l = "L119" -> 8 [] l = "L124" -> 9
         [] l = "L129" -> 10 [] l = "L144" -> 11 [] l = "L145" -> 12
         [] l = "L147" -> 13 [] l = "L152" -> 14 [] l = "L157" -> 15
         [] l = "done" -> 16]

\* every statement issues exactly one GET, 3 + 4 + 4 + 5 in all
RequestCounts ==
    /\ Len(sent) <= 16
    /\ pc # "error" => Len(sent) = SentBefore[pc]
    /\ pc = "L88" => Len(sent) = 3
    /\ pc = "L118" => Len(sent) = 3 + 4
    /\ pc = "L144" => Len(sent) = 3 + 4 + 4
    /\ pc = "done" => Len(sent) = 3 + 4 + 4 + 5

Terminated == pc \in {"done", "error"}

\* C10: when every GET returns or raises, the script terminates; each
\* resolver call issues one GET, a run issues at most 16 and exactly 16
\* when the pipeline succeeds and every assertion passes.
C10_Termination == []RequestCounts /\ <>Terminated

\* the script ended normally after 16 requests and 10 passed checks
C10_Witness ==
    /\ pc = "done"
    /\ error = "none"
    /\ Len(sent) = 16
    /\ Len(checks) = 10

====
